---- MODULE Spec2Model ----
(***************************************************************************)
(* reddit-wallpaper (src/index.js): fetch the configured subreddit         *)
(* listings, normalise and filter the links, pick one link by the sort     *)
(* mode (optionally skipping links whose file is already on disk),         *)
(* download it, set it as wallpaper and notify.                            *)
(*                                                                         *)
(* Encoding of JavaScript values:                                          *)
(*   - a string is a sequence of one-character strings;                    *)
(*   - an object is a record; a property that is undefined is a field the  *)
(*     record does not have (defaultLink has no url, a link without a      *)
(*     score has no score field);                                          *)
(*   - a function that may return undefined or throw returns a record      *)
(*     tagged with "t".                                                    *)
(***************************************************************************)
EXTENDS Integers, Sequences, FiniteSets, TLC

(***************************************************************************)
(* Characters and character classes of the regular expressions             *)
(***************************************************************************)
LowerSeq == <<"a","b","c","d","e","f","g","h","i","j","k","l","m",
              "n","o","p","q","r","s","t","u","v","w","x","y","z">>

UpperSeq == <<"A","B","C","D","E","F","G","H","I","J","K","L","M",
              "N","O","P","Q","R","S","T","U","V","W","X","Y","Z">>

Range(f) == { f[i] : i \in DOMAIN f }

DigitSeq == <<"0","1","2","3","4","5","6","7","8","9">>

Digit == Range(DigitSeq)

\* \w
WordChar == Range(LowerSeq) \cup Range(UpperSeq) \cup Digit \cup {"_"}

\* \s
Space == {" "}

\* [\w,\s-]
NameChar == WordChar \cup {","} \cup Space \cup {"-"}

\* String.prototype.toLowerCase on one character
LowerChar(c) ==
    IF c \in Range(UpperSeq)
    THEN LowerSeq[CHOOSE i \in DOMAIN UpperSeq : UpperSeq[i] = c]
    ELSE c

\* String.prototype.toLowerCase
toLowerCase(s) == [i \in DOMAIN s |-> LowerChar(s[i])]

\* Array.prototype.indexOf(x) >= 0
Includes(arr, x) == \E i \in DOMAIN arr : arr[i] = x

(***************************************************************************)
(* matchFile: url.match(/([\w,\s-]+)\.([\w]+)(\?|$|#)/i)                   *)
(***************************************************************************)
Slice(s, i, j) == SubSeq(s, i, j)

AllIn(s, i, j, class) == \A p \in i..j : s[p] \in class

\* the starts i of a name s[i..j-1] in front of the "." at j
NameStarts(s, j) == { i \in 1..(j - 1) : AllIn(s, i, j - 1, NameChar) }

\* the ends k of an extension s[j+1..k] behind the "." at j that is followed
\* by "?", "#" or the end of the string
ExtEnds(s, j) ==
    { k \in (j + 1)..Len(s) :
        /\ AllIn(s, j + 1, k, WordChar)
        /\ (k = Len(s) \/ s[k + 1] \in {"?", "#"}) }

\* every << i, j, k >> such that the pattern matches s[i..k] with "." at j
FileMatches(s) ==
    UNION { { << i, j, k >> : i \in NameStarts(s, j), k \in ExtEnds(s, j) }
            : j \in { d \in 1..Len(s) : s[d] = "." } }

\* the match the regular expression engine reports: leftmost start, then the
\* longest name, then the longest extension
FirstFileMatch(ms) ==
    CHOOSE m \in ms :
        \A n \in ms :
            \/ m[1] < n[1]
            \/ (m[1] = n[1] /\ m[2] > n[2])
            \/ (m[1] = n[1] /\ m[2] = n[2] /\ m[3] >= n[3])

\* matchFile(url): the match array <<whole, name, ext, terminator>>, or
\* undefined when the url does not match
matchFile(url) ==
    LET ms == FileMatches(url)
    IN  IF ms = {}
        THEN [t |-> "undefined"]
        ELSE LET m == FirstFileMatch(ms)
                 term == IF m[3] = Len(url) THEN <<>> ELSE <<url[m[3] + 1]>>
             IN  [t |-> "match",
                  groups |-> << Slice(url, m[1], m[3]) \o term,
                                Slice(url, m[1], m[2] - 1),
                                Slice(url, m[2] + 1, m[3]),
                                term >>]

\* parseType(url): the lower-cased extension, '' when there is none
parseType(url) ==
    LET match == matchFile(url)
    IN  IF match.t = "match" /\ Len(match.groups) > 2
        THEN toLowerCase(match.groups[3])
        ELSE <<>>

\* urlFilePath(url, directory).  link is the object whose url is passed; a
\* url that is undefined, or one matchFile does not match, makes
\* `match.length` (or `url.match`) throw a TypeError.  The path is the file
\* name inside the one destination directory.
urlFilePath(link) ==
    IF "url" \notin DOMAIN link
    THEN [t |-> "TypeError"]
    ELSE LET match == matchFile(link.url)
         IN  IF match.t = "undefined"
             THEN [t |-> "TypeError"]
             ELSE IF Len(match.groups) > 2
                  THEN [t |-> "path",
                        path |-> match.groups[2] \o <<".">> \o match.groups[3]]
                  ELSE [t |-> "undefined"]

(***************************************************************************)
(* parseResolution: title.match(/\[\s*(\d+)\s*[×x\*]\s*(\d+)\s*\]/i)       *)
(***************************************************************************)
RECURSIVE SkipClass(_, _, _)
\* first position >= p of s that is not in class (Len(s) + 1 at the end)
SkipClass(s, p, class) ==
    IF p <= Len(s) /\ s[p] \in class THEN SkipClass(s, p + 1, class) ELSE p

DigitValue(c) == (CHOOSE i \in DOMAIN DigitSeq : DigitSeq[i] = c) - 1

RECURSIVE parseInt(_)
\* parseInt of a non-empty string of decimal digits
parseInt(ds) ==
    IF Len(ds) = 0 THEN 0
    ELSE 10 * parseInt(SubSeq(ds, 1, Len(ds) - 1)) + DigitValue(ds[Len(ds)])

ResolutionSeparator == {"×", "x", "X", "*"}

\* the match of the pattern that starts at position i of s, if there is one
ResolutionAt(s, i) ==
    LET w1 == SkipClass(s, i + 1, Space)
        w2 == SkipClass(s, w1, Digit)
        sp == SkipClass(s, w2, Space)
        h1 == SkipClass(s, sp + 1, Space)
        h2 == SkipClass(s, h1, Digit)
        cl == SkipClass(s, h2, Space)
    IN  IF /\ s[i] = "["
           /\ w2 > w1
           /\ sp <= Len(s) /\ s[sp] \in ResolutionSeparator
           /\ h2 > h1
           /\ cl <= Len(s) /\ s[cl] = "]"
        THEN [t |-> "match",
              groups |-> << SubSeq(s, i, cl), SubSeq(s, w1, w2 - 1),
                            SubSeq(s, h1, h2 - 1) >>]
        ELSE [t |-> "undefined"]

\* parseResolution(title): {width, height} of the first match, or undefined
parseResolution(title) ==
    LET starts == { i \in 1..Len(title) : ResolutionAt(title, i).t = "match" }
    IN  IF starts = {}
        THEN [t |-> "undefined"]
        ELSE LET i == CHOOSE a \in starts : \A b \in starts : a <= b
                 match == ResolutionAt(title, i)
             IN  IF Len(match.groups) > 2
                 THEN [t |-> "resolution",
                       width |-> parseInt(match.groups[2]),
                       height |-> parseInt(match.groups[3])]
                 ELSE [t |-> "undefined"]

(***************************************************************************)
(* Scoring functions.  A JavaScript number is [t |-> "num", ...] or        *)
(* [t |-> "nan"]; every comparison with NaN is false.                      *)
(***************************************************************************)
NaN == [t |-> "nan"]

Num(n) == [t |-> "num", v |-> n]

\* a > b on numbers
Gt(a, b) == a.t = "num" /\ b.t = "num" /\ a.v > b.v

\* the value of a numeric property: NaN when the property is undefined
Prop(link, name) == IF name \in DOMAIN link THEN Num(link[name]) ELSE NaN

\* floor(90000 * log10(n)) for the scores the model uses
Log10Scaled(n) ==
    CASE n = 1   -> 0
      [] n = 10  -> 90000
      [] n = 50  -> 152907
      [] n = 100 -> 180000
      [] n = 150 -> 195848
      [] n = 200 -> 207092

HeatEpoch == 1134028003

HeatPeriod == 45000

\* heat(link) = Math.round(sign * order + seconds / 45000), where
\* Math.round(x) = floor(x + 1/2); with seconds = 45000 * q + r this is
\* q + floor((90000 * order + 2 * r + 45000) / 90000)
heat(link) ==
    IF "score" \notin DOMAIN link \/ "createdUtc" \notin DOMAIN link
    THEN NaN
    ELSE LET max == IF link.score > 1 THEN link.score ELSE 1
             sign == IF link.score > 0 THEN 1
                     ELSE IF link.score < 0 THEN -1 ELSE 0
             seconds == link.createdUtc - HeatEpoch
             q == seconds \div HeatPeriod
             r == seconds % HeatPeriod
         IN  Num(q + ((sign * Log10Scaled(max) + 2 * r + HeatPeriod)
                        \div (2 * HeatPeriod)))

RECURSIVE Gcd(_, _)
Gcd(a, b) == IF b = 0 THEN a ELSE Gcd(b, a % b)

RECURSIVE Pow(_, _)
Pow(b, e) == IF e = 0 THEN 1 ELSE b * Pow(b, e - 1)

\* the number base ^ (num / den), den > 0, kept exact
Power(base, num, den) ==
    [t |-> "pow", base |-> base,
     num |-> num \div Gcd(num, den), den |-> den \div Gcd(num, den)]

\* controversy(link) = Math.pow(ups + downs, balance); 0 / 0 is NaN and
\* Math.pow(0, NaN) is NaN
controversy(link) ==
    IF "ups" \notin DOMAIN link \/ "downs" \notin DOMAIN link
    THEN NaN
    ELSE IF link.downs < 0 \/ link.ups < 0
    THEN Power(0, 1, 1)
    ELSE LET magnitude == link.ups + link.downs
         IN  IF link.ups > link.downs
             THEN Power(magnitude, link.downs, link.ups)
             ELSE IF link.downs = 0
                  THEN NaN
                  ELSE Power(magnitude, link.ups, link.downs)

\* a > b on the values of controversy
ControversyGt(a, b) ==
    /\ a.t = "pow" /\ b.t = "pow"
    /\ Pow(a.base, a.num * b.den) > Pow(b.base, b.num * a.den)

(***************************************************************************)
(* selectLink and the fold                                                 *)
(***************************************************************************)
KnownSorts == {"top", "hot", "controversial", "new"}

defaultLink == [score |-> 0, createdUtc |-> 0, ups |-> 0, downs |-> 0]

\* selectLink(sort) throws for a sort outside KnownSorts
selectLinkThrows(sort) == sort \notin KnownSorts

\* the comparator selectLink(sort) returns, applied to (x, y)
selectLink(sort, x, y) ==
    CASE sort = "top" ->
            IF Gt(Prop(x, "score"), Prop(y, "score")) THEN x ELSE y
      [] sort = "hot" ->
            IF Gt(heat(x), heat(y)) THEN x ELSE y
      [] sort = "controversial" ->
            IF ControversyGt(controversy(x), controversy(y)) THEN x ELSE y
      [] sort = "new" ->
            IF Gt(Prop(x, "createdUtc"), Prop(y, "createdUtc")) THEN x ELSE y

RECURSIVE Reduce(_, _, _)
\* links.reduce(selectLink(sort), acc)
Reduce(links, sort, acc) ==
    IF links = <<>> THEN acc
    ELSE Reduce(Tail(links), sort, selectLink(sort, acc, Head(links)))

(***************************************************************************)
(* selectWallpaperLink: normaliser and filter stage                        *)
(***************************************************************************)
RECURSIVE Concat(_)
\* seqs.reduce((x, y) => x.concat(y), [])
Concat(seqs) == IF seqs = <<>> THEN <<>> ELSE Head(seqs) \o Concat(Tail(seqs))

\* subreddit.kind === 'Listing' && subreddit.data && subreddit.data.children
IsListing(subreddit) ==
    /\ subreddit.kind = "Listing"
    /\ "data" \in DOMAIN subreddit
    /\ "children" \in DOMAIN subreddit.data

\* link.kind.toLowerCase() === 't3' && link.data
IsLink(child) ==
    /\ toLowerCase(child.kind) = <<"t", "3">>
    /\ "data" \in DOMAIN child

\* the object literal built from one child of a listing (the display-only
\* properties subreddit, permalink and author are not modelled)
Candidate(child) ==
    LET d == child.data
        resolution == parseResolution(d.title)
    IN  [url |-> d.url, title |-> d.title, ups |-> d.ups, downs |-> d.downs,
         createdUtc |-> d.created_utc, domain |-> toLowerCase(d.domain),
         type |-> toLowerCase(parseType(d.url))]
        @@ (IF "score" \in DOMAIN d THEN [score |-> d.score] ELSE <<>>)
        @@ (IF resolution.t = "resolution"
            THEN [resolution |-> [width |-> resolution.width,
                                  height |-> resolution.height]]
            ELSE <<>>)

ListingLinks(listing) ==
    LET children == SelectSeq(listing.data.children, IsLink)
    IN  [i \in DOMAIN children |-> Candidate(children[i])]

\* the candidates of all listings, in the order of subreddits
Normalize(subreddits) ==
    LET listings == SelectSeq(subreddits, IsListing)
    IN  Concat([i \in DOMAIN listings |-> ListingLinks(listings[i])])

\* ScoreClause without the `!link.score ||` bypass
ScoreClause_NoZeroBypass(options, link) ==
    "score" \in DOMAIN link /\ link.score >= options.score

\* !link.score || link.score >= options.score
ScoreClause(options, link) ==
    \/ "score" \notin DOMAIN link
    \/ link.score = 0
    \/ link.score >= options.score

DomainClause(options, link) ==
    \/ "domains" \notin DOMAIN options
    \/ Len(options.domains) = 0
    \/ Includes(options.domains, toLowerCase(link.domain))

TypeClause(options, link) ==
    \/ "types" \notin DOMAIN options
    \/ Len(options.types) = 0
    \/ Includes(options.types, link.type)

ResolutionClause(options, link) ==
    \/ "resolution" \notin DOMAIN options
    \/ /\ "resolution" \in DOMAIN link
       /\ link.resolution.width >= options.resolution.width
       /\ link.resolution.height >= options.resolution.height

\* the predicate of the .filter() of selectWallpaperLink
KeepLink(options, link) ==
    /\ ScoreClause(options, link)
    /\ DomainClause(options, link)
    /\ TypeClause(options, link)
    /\ ResolutionClause(options, link)

\* the array `links` of selectWallpaperLink
FilterLinks(options, subreddits) ==
    LET Keep(link) == KeepLink(options, link)
    IN  SelectSeq(Normalize(subreddits), Keep)

(***************************************************************************)
(* Inputs: listing children, listings, options                             *)
(***************************************************************************)
T3(data) == [kind |-> <<"t", "3">>, data |-> data]

Data(url, title, domain, score, ups, downs, created) ==
    [url |-> url, title |-> title, domain |-> domain, score |-> score,
     ups |-> ups, downs |-> downs, created_utc |-> created]

\* the same link data without a score property
DataNoScore(url, title, domain, ups, downs, created) ==
    [url |-> url, title |-> title, domain |-> domain,
     ups |-> ups, downs |-> downs, created_utc |-> created]

Title1920 == <<"[","1","9","2","0","x","1","0","8","0","]">>

TitleWide == <<"W"," ","[","2","5","6","0","×","1","4","4","0"," ","]">>

Title800 == <<"[","8","0","0","*","6","0","0","]">>

TitlePlain == <<"n","o">>

DomainImgur == <<"i",".","c","o">>

DomainUpper == <<"I",".","C","O">>

DomainOther == <<"x",".","c","o">>

UrlA == <<"i",".","c","o","/","a",".","j","p","g">>

UrlB == <<"b",".","p","n","g">>

UrlC == <<"c",".","j","p","g">>

UrlD == <<"d",".","j","p","g">>

UrlE == <<"e",".","J","P","G","?","1">>

UrlF == <<"f",".","j","p","g","#","x">>

UrlG == <<"g",".","g","i","f">>

UrlN == <<"i",".","c","o","/","n">>

ChildA == T3(Data(UrlA, Title1920, DomainImgur, 200, 3, 1, 300))

ChildB == T3(Data(UrlB, TitleWide, DomainUpper, 200, 2, 2, 100))

ChildC == T3(Data(UrlC, Title1920, DomainImgur, 50, 1, 0, 200))

ChildD == T3(Data(UrlD, Title1920, DomainImgur, 150, 0, 0, 300))

ChildE == T3(Data(UrlE, Title1920, DomainImgur, 0, 0, 2, 200))

ChildF == T3(DataNoScore(UrlF, Title1920, DomainImgur, 1, 3, 100))

ChildG == T3(Data(UrlG, Title800, DomainOther, 200, -1, 2, 200))

ChildN == T3(Data(UrlN, TitlePlain, DomainImgur, -3, 1, 1, 100))

\* a comment (kind t1) and a link entry without a data payload
ChildComment == [kind |-> <<"t", "1">>, data |-> ChildA.data]

ChildNoData == [kind |-> <<"T", "3">>]

\* children of the listings checked by the selection alone
SelectChildren ==
    {ChildA, ChildB, ChildC, ChildD, ChildE, ChildF, ChildG, ChildN}

\* a link with the url of ChildN (no file name in it) that passes the score
\* threshold
ChildN200 == T3(Data(UrlN, TitlePlain, DomainImgur, 200, 1, 1, 100))

\* children of the listings a run fetches
RunChildren == {ChildA, ChildB, ChildN200, ChildComment}

\* most children of one listing of the selection alone
MaxLinks == 2

\* most children of one listing a run fetches
MaxChildren == 1

SeqsUpTo(S, n) == UNION { [1..k -> S] : k \in 0..n }

Listing(children) == [kind |-> "Listing", data |-> [children |-> children]]

\* payloads that are not listings: another kind, no data, no children
NotListings ==
    { [kind |-> "Error"], [kind |-> "Listing"],
      [kind |-> "Listing", data |-> [after |-> "x"]] }

SelectListings == { Listing(c) : c \in SeqsUpTo(SelectChildren, MaxLinks) }

\* a listing with an entry that has no data in front of two links
ListingNoData == Listing(<< ChildNoData, ChildB, ChildA >>)

RunListings ==
    { Listing(c) : c \in SeqsUpTo(RunChildren, MaxChildren) }
        \cup NotListings \cup {ListingNoData}

\* the file names in the destination directory that a run can touch
RunPaths ==
    { urlFilePath(c.data).path :
        c \in { d \in RunChildren : "data" \in DOMAIN d
                                     /\ urlFilePath(d.data).t = "path" } }

\* the destination directories a run starts with: every file name is a
\* regular file or missing, or one of them is a directory
RunFileSystems ==
    [RunPaths -> {"file", "none"}]
        \cup { [p \in RunPaths |-> IF p = d THEN "dir" ELSE "none"] :
                 d \in RunPaths }

Sorts == KnownSorts \cup {"rising"}

TypesDefault == << <<"p","n","g">>, <<"j","p","g">> >>

\* options of the selection alone: every combination of the filter settings
SelectOptions ==
    { [subreddits |-> <<"wallpaper">>, sort |-> sort, score |-> score,
       shuffle |-> FALSE] @@ domains @@ types @@ resolution :
        sort \in Sorts,
        score \in {-5, 100},
        domains \in { <<>>, [domains |-> <<>>],
                      [domains |-> <<DomainImgur>>] },
        types \in { <<>>, [types |-> <<>>], [types |-> TypesDefault] },
        resolution \in { <<>>,
                         [resolution |-> [width |-> 1920, height |-> 1080]] } }

\* options of a run
RunOptions ==
    { [subreddits |-> <<"wallpaper", "castles">>, sort |-> sort,
       score |-> 100, domains |-> <<DomainImgur>>, types |-> <<>>,
       shuffle |-> shuffle] :
        sort \in Sorts, shuffle \in BOOLEAN }

(***************************************************************************)
(* State of one run                                                        *)
(***************************************************************************)
VARIABLES
    pc,          \* where the promise chain of run() is
    options,     \* the options run() was called with
    fetch,       \* per subreddit: state of its request
    subreddits,  \* per subreddit: the parsed response, once it has arrived
    links,       \* the filtered links of selectWallpaperLink
    probe,       \* per filtered link: state and outcome of its fs.stat
    winner,      \* the link selectWallpaperLink resolved with
    error,       \* the rejection reason of the run ("" while there is none)
    fs,          \* the destination directory: what each file name is
    calls,       \* the effects started: image request, write, set, notify
    written,     \* the file names written, in order
    wallpaper,   \* the files set as wallpaper, in order
    notified,    \* the notifications delivered
    defaults,    \* the module-level defaults object
    config,      \* the object the caller passed to main
    arg,         \* the argument of a call of one of the pure functions
    result       \* what that call returned

\* what no step of run() touches
outside == << options, defaults, config, arg, result >>

vars == << pc, fetch, subreddits, links, probe, winner, error, fs, calls,
           written, wallpaper, notified, outside >>

NoCall == [t |-> "none"]

NoLink == [t |-> "none"]

NoResponse == [t |-> "none"]

Feeds == DOMAIN options.subreddits

InitRest ==
    /\ links = <<>>
    /\ probe = <<>>
    /\ winner = NoLink
    /\ error = ""
    /\ calls = {}
    /\ written = <<>>
    /\ wallpaper = <<>>
    /\ notified = 0

\* main(config) with an object: run(assignConfig(config)) has been called
Init ==
    /\ pc = "ensureDirectoryExists"
    /\ options \in RunOptions
    /\ fetch = [i \in DOMAIN options.subreddits |-> "idle"]
    /\ subreddits = [i \in DOMAIN options.subreddits |-> NoResponse]
    /\ fs \in RunFileSystems
    /\ config = options
    /\ defaults = options
    /\ arg = NoCall
    /\ result = NoCall
    /\ InitRest

Fail(reason) ==
    /\ pc' = "failed"
    /\ error' = reason

(***************************************************************************)
(* run: ensureDirectoryExists, then loadSubreddits                         *)
(***************************************************************************)
\* the directory exists, or fs.mkdir creates it
EnsureDirectoryExists ==
    /\ pc = "ensureDirectoryExists"
    /\ pc' = "loadSubreddits"
    /\ UNCHANGED << outside, fetch, subreddits, links, probe, winner, error,
                    fs, calls, written, wallpaper, notified >>

\* the directory does not exist and fs.mkdir fails
EnsureDirectoryFails ==
    /\ pc = "ensureDirectoryExists"
    /\ Fail("MkdirError")
    /\ UNCHANGED << outside, fetch, subreddits, links, probe, winner, fs,
                    calls, written, wallpaper, notified >>

\* Promise.all(options.subreddits.map(loadSubreddit)): every request is sent
LoadSubreddits ==
    /\ pc = "loadSubreddits"
    /\ fetch' = [i \in Feeds |-> "pending"]
    /\ pc' = "fetching"
    /\ UNCHANGED << outside, subreddits, links, probe, winner, error, fs,
                    calls, written, wallpaper, notified >>

\* LoadSubredditOk that collects the responses in the order they arrive
LoadSubredditOk_CompletionOrder(i, listing) ==
    LET slot == 1 + Cardinality({ j \in Feeds : fetch[j] = "ok" })
    IN  /\ fetch[i] = "pending"
        /\ fetch' = [fetch EXCEPT ![i] = "ok"]
        /\ subreddits' = [subreddits EXCEPT ![slot] = listing]
        /\ pc' = IF pc = "fetching" /\ \A j \in Feeds \ {i} : fetch[j] = "ok"
                 THEN "selectWallpaperLink"
                 ELSE pc
        /\ UNCHANGED << outside, links, probe, winner, error, fs, calls,
                        written, wallpaper, notified >>

\* the response of request i arrives and JSON.parse succeeds; Promise.all
\* fulfils when it was the last one
LoadSubredditOk(i, listing) ==
    /\ fetch[i] = "pending"
    /\ fetch' = [fetch EXCEPT ![i] = "ok"]
    /\ subreddits' = [subreddits EXCEPT ![i] = listing]
    /\ pc' = IF pc = "fetching" /\ \A j \in Feeds \ {i} : fetch[j] = "ok"
             THEN "selectWallpaperLink"
             ELSE pc
    /\ UNCHANGED << outside, links, probe, winner, error, fs, calls, written,
                    wallpaper, notified >>

\* LoadSubredditFails that tolerates the failure: the run goes on
LoadSubredditFails_Tolerated(i) ==
    /\ fetch[i] = "pending"
    /\ fetch' = [fetch EXCEPT ![i] = "failed"]
    /\ UNCHANGED << pc, error, outside, subreddits, links, probe, winner, fs,
                    calls, written, wallpaper, notified >>

\* request i fails, or JSON.parse throws; Promise.all rejects with the first
\* failure
LoadSubredditFails(i) ==
    /\ fetch[i] = "pending"
    /\ fetch' = [fetch EXCEPT ![i] = "failed"]
    /\ IF pc = "fetching"
       THEN Fail("FetchError")
       ELSE UNCHANGED << pc, error >>
    /\ UNCHANGED << outside, subreddits, links, probe, winner, fs, calls,
                    written, wallpaper, notified >>

(***************************************************************************)
(* selectWallpaperLink: existence probes and fold                          *)
(***************************************************************************)
\* fileExists without the .catch(() => false): a failed stat counts as a hit
fileExists_StatErrorExists(outcome) == outcome \in {"isFile", "statError"}

\* fileExists on the outcome of fs.stat: file.isFile(), false when stat
\* failed (.catch(() => false)) and false without a path
fileExists(outcome) == outcome = "isFile"

\* Retain that keeps every link, whatever its probe said
Retain_KeepAll(ls, outcomes) == ls

RECURSIVE Retain(_, _)
\* Promise.filter(links, link => fileExists(...).then(exists => !exists)):
\* the links whose probe said false, in the order of links
Retain(ls, outcomes) ==
    IF ls = <<>> THEN <<>>
    ELSE (IF fileExists(Head(outcomes)) THEN <<>> ELSE << Head(ls) >>)
            \o Retain(Tail(ls), Tail(outcomes))

\* the probes Promise.filter starts for the links ls.  urlFilePath throws for
\* a link without a file name; whether the links after the first such link
\* are still probed is up to the promise library (more).
StartProbes(ls, more) ==
    LET Throws(i) == urlFilePath(ls[i]).t = "TypeError"
        first == IF \E i \in DOMAIN ls : Throws(i)
                 THEN CHOOSE i \in DOMAIN ls :
                        Throws(i) /\ \A j \in 1..(i - 1) : ~Throws(j)
                 ELSE 0
    IN  [i \in DOMAIN ls |->
            IF first # 0 /\ i > first /\ ~more THEN "notStarted"
            ELSE IF Throws(i) THEN "threw"
            ELSE IF urlFilePath(ls[i]).t = "undefined" THEN "noPath"
            ELSE "pending"]

\* the .then(subreddits => selectWallpaperLink(options, subreddits)) of run,
\* up to the first asynchronous step
SelectWallpaperLink ==
    /\ pc = "selectWallpaperLink"
    /\ links' = FilterLinks(options, subreddits)
    /\ IF options.shuffle
       THEN /\ \E more \in BOOLEAN : probe' = StartProbes(links', more)
            /\ winner' = winner
            /\ IF selectLinkThrows(options.sort)
               THEN Fail("UnknownSort")
               ELSE IF \E i \in DOMAIN probe' : probe'[i] = "threw"
                    THEN Fail("TypeError")
                    ELSE pc' = "probing" /\ error' = error
       ELSE /\ probe' = <<>>
            /\ IF selectLinkThrows(options.sort)
               THEN Fail("UnknownSort") /\ winner' = winner
               ELSE /\ winner' = Reduce(links', options.sort, defaultLink)
                    /\ pc' = "downloadFile"
                    /\ error' = error
    /\ UNCHANGED << outside, fetch, subreddits, fs, calls, written,
                    wallpaper, notified >>

ProbePath(i) == urlFilePath(links[i]).path

\* SettleProbe that collects the outcomes in the order the probes settle
SettleProbe_CompletionOrder(i, outcome) ==
    LET slot == CHOOSE k \in DOMAIN probe :
                    /\ probe[k] = "pending"
                    /\ \A j \in 1..(k - 1) : probe[j] # "pending"
    IN  /\ i \in DOMAIN probe
        /\ probe[i] = "pending"
        /\ probe' = [probe EXCEPT ![slot] = outcome]
        /\ UNCHANGED << pc, outside, fetch, subreddits, links, winner, error,
                        fs, calls, written, wallpaper, notified >>

\* the fs.stat of link i settles: Promise.filter keeps the outcome at the
\* position of the link
SettleProbe(i, outcome) ==
    /\ i \in DOMAIN probe
    /\ probe[i] = "pending"
    /\ probe' = [probe EXCEPT ![i] = outcome]
    /\ UNCHANGED << pc, outside, fetch, subreddits, links, winner, error, fs,
                    calls, written, wallpaper, notified >>

\* fs.stat succeeds on a regular file
StatIsFile(i) ==
    /\ SettleProbe(i, "isFile")
    /\ fs[ProbePath(i)] = "file"

\* fs.stat succeeds on something that is not a regular file
StatNotFile(i) ==
    /\ SettleProbe(i, "notFile")
    /\ fs[ProbePath(i)] = "dir"

\* fs.stat fails: there is no such file (ENOENT), or any other error
StatFails(i) == SettleProbe(i, "statError")

\* ReduceLinks that folds every filtered link, whatever its probe said
ReduceLinks_IgnoresProbes ==
    /\ pc = "probing"
    /\ \A i \in DOMAIN probe : probe[i] # "pending"
    /\ winner' = Reduce(links, options.sort, defaultLink)
    /\ pc' = "downloadFile"
    /\ UNCHANGED << outside, fetch, subreddits, links, probe, error, fs,
                    calls, written, wallpaper, notified >>

\* ReduceLinks that folds as soon as one probe has settled
ReduceLinks_NoWait ==
    /\ pc = "probing"
    /\ \E i \in DOMAIN probe : probe[i] # "pending"
    /\ winner' = Reduce(Retain(links, probe), options.sort, defaultLink)
    /\ pc' = "downloadFile"
    /\ UNCHANGED << outside, fetch, subreddits, links, probe, error, fs,
                    calls, written, wallpaper, notified >>

\* every probe has settled: Promise.reduce folds the retained links
ReduceLinks ==
    /\ pc = "probing"
    /\ \A i \in DOMAIN probe : probe[i] # "pending"
    /\ winner' = Reduce(Retain(links, probe), options.sort, defaultLink)
    /\ pc' = "downloadFile"
    /\ UNCHANGED << outside, fetch, subreddits, links, probe, error, fs,
                    calls, written, wallpaper, notified >>

(***************************************************************************)
(* run: downloadFile, wallpaper.set, notify                                *)
(***************************************************************************)
\* downloadFile(link.url, options.directory): urlFilePath, then the request
DownloadFile ==
    /\ pc = "downloadFile"
    /\ IF urlFilePath(winner).t = "TypeError"
       THEN Fail("TypeError") /\ calls' = calls
       ELSE /\ calls' = calls \cup {"request"}
            /\ pc' = "request"
            /\ error' = error
    /\ UNCHANGED << outside, fetch, subreddits, links, probe, winner, fs,
                    written, wallpaper, notified >>

\* RequestOk that calls wallpaper.set without waiting for the write
RequestOk_SetsWallpaper ==
    /\ pc = "request"
    /\ calls' = calls \cup {"writeFile", "wallpaper.set"}
    /\ pc' = "wallpaper.set"
    /\ UNCHANGED << outside, fetch, subreddits, links, probe, winner, error,
                    fs, written, wallpaper, notified >>

\* the image arrives: fs.writeFile(file, data) is started
RequestOk ==
    /\ pc = "request"
    /\ calls' = calls \cup {"writeFile"}
    /\ pc' = "writeFile"
    /\ UNCHANGED << outside, fetch, subreddits, links, probe, winner, error,
                    fs, written, wallpaper, notified >>

RequestFails ==
    /\ pc = "request"
    /\ Fail("DownloadError")
    /\ UNCHANGED << outside, fetch, subreddits, links, probe, winner, fs,
                    calls, written, wallpaper, notified >>

\* the file is written: wallpaper.set(file) is called
WriteFileOk ==
    /\ pc = "writeFile"
    /\ urlFilePath(winner).t = "path"
    /\ fs[urlFilePath(winner).path] # "dir"
    /\ fs' = [fs EXCEPT ![urlFilePath(winner).path] = "file"]
    /\ written' = Append(written, urlFilePath(winner).path)
    /\ calls' = calls \cup {"wallpaper.set"}
    /\ pc' = "wallpaper.set"
    /\ UNCHANGED << outside, fetch, subreddits, links, probe, winner, error,
                    wallpaper, notified >>

WriteFileFails ==
    /\ pc = "writeFile"
    /\ Fail("WriteError")
    /\ UNCHANGED << outside, fetch, subreddits, links, probe, winner, fs,
                    calls, written, wallpaper, notified >>

\* the wallpaper is set: notify(link, file) is called
WallpaperSetOk ==
    /\ pc = "wallpaper.set"
    /\ wallpaper' = Append(wallpaper, urlFilePath(winner).path)
    /\ calls' = calls \cup {"notify"}
    /\ pc' = "notify"
    /\ UNCHANGED << outside, fetch, subreddits, links, probe, winner, error,
                    fs, written, notified >>

\* WallpaperSetFails that downloads the image again instead of failing
WallpaperSetFails_Retries ==
    /\ pc = "wallpaper.set"
    /\ pc' = "request"
    /\ UNCHANGED << outside, fetch, subreddits, links, probe, winner, error,
                    fs, calls, written, wallpaper, notified >>

WallpaperSetFails ==
    /\ pc = "wallpaper.set"
    /\ Fail("ApplyError")
    /\ UNCHANGED << outside, fetch, subreddits, links, probe, winner, fs,
                    calls, written, wallpaper, notified >>

\* the notification is delivered: the run resolves with the link
NotifyOk ==
    /\ pc = "notify"
    /\ notified' = notified + 1
    /\ pc' = "done"
    /\ UNCHANGED << outside, fetch, subreddits, links, probe, winner, error,
                    fs, calls, written, wallpaper >>

NotifyFails ==
    /\ pc = "notify"
    /\ Fail("NotifyError")
    /\ UNCHANGED << outside, fetch, subreddits, links, probe, winner, fs,
                    calls, written, wallpaper, notified >>

Next ==
    \/ EnsureDirectoryExists
    \/ EnsureDirectoryFails
    \/ LoadSubreddits
    \/ \E i \in Feeds, listing \in RunListings : LoadSubredditOk(i, listing)
    \/ \E i \in Feeds : LoadSubredditFails(i)
    \/ SelectWallpaperLink
    \/ \E i \in DOMAIN probe : StatIsFile(i)
    \/ \E i \in DOMAIN probe : StatNotFile(i)
    \/ \E i \in DOMAIN probe : StatFails(i)
    \/ ReduceLinks
    \/ DownloadFile
    \/ RequestOk
    \/ RequestFails
    \/ WriteFileOk
    \/ WriteFileFails
    \/ WallpaperSetOk
    \/ WallpaperSetFails
    \/ NotifyOk
    \/ NotifyFails

Spec == Init /\ [][Next]_vars

(***************************************************************************)
(* The selection alone: selectWallpaperLink without shuffle applied to     *)
(* fetched listings                                                        *)
(***************************************************************************)
InitSelect ==
    /\ pc = "selectWallpaperLink"
    /\ options \in SelectOptions
    /\ fetch = [i \in DOMAIN options.subreddits |-> "ok"]
    /\ subreddits \in [DOMAIN options.subreddits -> SelectListings]
    /\ fs = [p \in RunPaths |-> "none"]
    /\ config = options
    /\ defaults = options
    /\ arg = NoCall
    /\ result = NoCall
    /\ InitRest

NextSelect == SelectWallpaperLink

SpecSelect == InitSelect /\ [][NextSelect]_vars

(***************************************************************************)
(* The configuration alone: successive calls main(config) with an object   *)
(***************************************************************************)
\* the home directory (user-home)
Home == <<"/","h">>

\* const defaults = { ... }
DefaultsInitial ==
    [subreddits |-> <<"wallpaper", "wallpapers", "castles">>,
     sort |-> "top",
     from |-> "month",
     score |-> 100,
     domains |-> << <<"i",".","i","m","g","u","r",".","c","o","m">>,
                    <<"i","m","g","u","r",".","c","o","m">> >>,
     types |-> << <<"p","n","g">>, <<"j","p","g">>, <<"j","p","e","g">> >>,
     shuffle |-> TRUE,
     directory |-> Home \o <<"/",".","r","w">>,
     resolution |-> [width |-> 1920, height |-> 1080]]

\* Object.assign(target, source): the properties of source are written over
\* those of target
ObjectAssign(target, source) == source @@ target

\* expandTilde(directory): a leading ~ becomes the home directory
expandTilde(directory) ==
    IF directory # <<>> /\ Head(directory) = "~"
    THEN Home \o Tail(directory)
    ELSE directory

\* the object assignConfig(options) builds from the object `target`; in the
\* code the target is the module-level defaults object itself
assignConfig(target, source) ==
    LET assigned == ObjectAssign(target, source)
        lowered ==
            IF "domains" \in DOMAIN assigned
            THEN [assigned EXCEPT
                    !.domains = [i \in DOMAIN @ |-> toLowerCase(@[i])]]
            ELSE assigned
        lowerFiles ==
            IF "files" \in DOMAIN lowered
            THEN [lowered EXCEPT
                    !.files = [i \in DOMAIN @ |-> toLowerCase(@[i])]]
            ELSE lowered
    IN  IF Includes(lowerFiles.directory, "~")
        THEN [lowerFiles EXCEPT !.directory = expandTilde(@)]
        ELSE lowerFiles

\* the objects callers pass to main: any choice of properties to override
Configs ==
    { sort @@ score @@ shuffle @@ domains @@ directory @@ subs :
        sort \in {<<>>, [sort |-> "new"], [sort |-> "hot"]},
        score \in {<<>>, [score |-> 50]},
        shuffle \in {<<>>, [shuffle |-> FALSE]},
        domains \in {<<>>, [domains |-> <<>>], [domains |-> <<DomainUpper>>]},
        directory \in {<<>>, [directory |-> <<"~","/","w">>]},
        subs \in {<<>>, [subreddits |-> <<"castles">>]} }

\* main(config) with an object: assignConfig(config), and run() is entered
\* with the object it returned, which is the defaults object
main(c) ==
    /\ config' = c
    /\ defaults' = assignConfig(defaults, c)
    /\ options' = defaults'
    /\ pc' = "ensureDirectoryExists"
    /\ fetch' = [i \in DOMAIN options'.subreddits |-> "idle"]
    /\ subreddits' = [i \in DOMAIN options'.subreddits |-> NoResponse]
    /\ UNCHANGED << links, probe, winner, error, fs, calls, written,
                    wallpaper, notified, arg, result >>

\* the module has been loaded and main has not been called yet
InitConfig ==
    /\ pc = "main"
    /\ defaults = DefaultsInitial
    /\ config = NoCall
    /\ options = NoCall
    /\ fetch = <<>>
    /\ subreddits = <<>>
    /\ fs = [p \in RunPaths |-> "none"]
    /\ arg = NoCall
    /\ result = NoCall
    /\ InitRest

NextConfig == \E c \in Configs : main(c)

SpecConfig == InitConfig /\ [][NextConfig]_vars

(***************************************************************************)
(* The pure functions alone: heat, controversy and the object literal of   *)
(* the normaliser applied to chosen arguments                              *)
(***************************************************************************)
\* most votes of one kind on a link given to controversy
MaxVotes == 3

\* ups and downs given to controversy
VoteCounts == (-1..MaxVotes) \cup {10}

ControversyInputs ==
    { << [ups |-> u, downs |-> d] >> : u \in VoteCounts, d \in VoteCounts }

\* scores given to heat
HeatScores == {-3, 0, 1, 50, 200}

\* creation times given to heat: around the epoch of heat, half a period and
\* whole periods later, and long before
HeatTimes ==
    {100, HeatEpoch, HeatEpoch + 1, HeatEpoch + 22499, HeatEpoch + 22500,
     HeatEpoch + HeatPeriod, HeatEpoch + 2 * HeatPeriod}

\* two links of the same score, the second one created later
HeatInputs ==
    { << [score |-> c[1], createdUtc |-> c[2]],
         [score |-> c[1], createdUtc |-> c[3]] >> :
        c \in { d \in HeatScores \X HeatTimes \X HeatTimes : d[2] < d[3] } }

TitleZero == <<"[","0","x","0","]">>

TitleZeroWidth == <<"[","0","x","1","0","8","0","]">>

TitleZeroHeight == <<"a"," ","[","7","*","0","0","]">>

Titles ==
    {Title1920, TitleWide, Title800, TitlePlain, TitleZero, TitleZeroWidth,
     TitleZeroHeight}

\* link entries of a listing with every title
CandidateInputs ==
    { << T3(Data(url, title, DomainImgur, 200, 1, 1, 100)) >> :
        url \in {UrlA, UrlN}, title \in Titles }

PureCalls ==
    { [t |-> "heat", inputs |-> i] : i \in HeatInputs }
        \cup { [t |-> "controversy", inputs |-> i] : i \in ControversyInputs }
        \cup { [t |-> "Candidate", inputs |-> i] : i \in CandidateInputs }

Return(values) ==
    /\ pc = "call"
    /\ pc' = "returned"
    /\ result' = [t |-> arg.t, values |-> values]
    /\ UNCHANGED << options, defaults, config, arg, fetch, subreddits, links,
                    probe, winner, error, fs, calls, written, wallpaper,
                    notified >>

\* heat(link) on each input
ApplyHeat ==
    /\ arg.t = "heat"
    /\ Return([i \in DOMAIN arg.inputs |-> heat(arg.inputs[i])])

\* controversy(link) on each input
ApplyControversy ==
    /\ arg.t = "controversy"
    /\ Return([i \in DOMAIN arg.inputs |-> controversy(arg.inputs[i])])

\* the object literal of selectWallpaperLink on each input
ApplyCandidate ==
    /\ arg.t = "Candidate"
    /\ Return([i \in DOMAIN arg.inputs |-> Candidate(arg.inputs[i])])

InitPure ==
    /\ pc = "call"
    /\ arg \in PureCalls
    /\ result = NoCall
    /\ options = NoCall
    /\ defaults = DefaultsInitial
    /\ config = NoCall
    /\ fetch = <<>>
    /\ subreddits = <<>>
    /\ fs = [p \in RunPaths |-> "none"]
    /\ InitRest

NextPure ==
    \/ ApplyHeat
    \/ ApplyControversy
    \/ ApplyCandidate

SpecPure == InitPure /\ [][NextPure]_vars

(***************************************************************************)
(* Properties                                                              *)
(***************************************************************************)
Selected == winner # NoLink

AllFetched == \A i \in Feeds : fetch[i] = "ok"

NoDownloadEffects ==
    /\ calls = {}
    /\ written = <<>>
    /\ wallpaper = <<>>
    /\ notified = 0

HasScore(link) == "score" \in DOMAIN link

\* C1: under sort 'top' the accumulator of the fold is replaced only by a
\* candidate with a strictly greater score, so of two candidates with equal
\* score the earlier one is retained: no link in front of the winner's
\* first occurrence has the winner's score.
C1_TieKeepsEarlier ==
    (Selected /\ ~options.shuffle /\ options.sort = "top") =>
        \A i \in DOMAIN links :
            (links[i] = winner /\ \A k \in 1..(i - 1) : links[k] # winner)
                => \A k \in 1..(i - 1) :
                      ~(/\ HasScore(links[k]) /\ HasScore(winner)
                        /\ links[k].score = winner.score)

\* C2: without shuffle, under sort 'top' (if a filtered link has a positive
\* score) the winner is a filtered link whose score is >= the score of every
\* filtered link, and under sort 'new' the same with createdUtc.
C2_WinnerIsMaximum ==
    (Selected /\ ~options.shuffle) =>
        /\ (/\ options.sort = "top"
            /\ \E i \in DOMAIN links :
                   HasScore(links[i]) /\ links[i].score > 0)
              => /\ \E i \in DOMAIN links : winner = links[i]
                 /\ HasScore(winner)
                 /\ \A i \in DOMAIN links :
                       HasScore(links[i]) => winner.score >= links[i].score
        /\ (/\ options.sort = "new"
            /\ \E i \in DOMAIN links : links[i].createdUtc > 0)
              => /\ \E i \in DOMAIN links : winner = links[i]
                 /\ \A i \in DOMAIN links :
                       winner.createdUtc >= links[i].createdUtc

\* the links left after the filter and, with shuffle, the existence probes
Remaining == IF options.shuffle THEN Retain(links, probe) ELSE links

\* C3: when no link is left after filter and exclusion, the run ends with an
\* empty-selection error of its own and nothing of the download stage happens.
C3_EmptySelectionError ==
    (Selected /\ Remaining = <<>> /\ pc \in {"failed", "done"})
        => error = "EmptySelectionError" /\ NoDownloadEffects

\* C4: with shuffle, a filtered link whose url has no name.ext counts as
\* having no local file: its probe says 'does not exist' and the selection
\* does not fail because of it.
C4_NoFileNameIsNoLocalFile ==
    (/\ options.shuffle
     /\ options.sort \in KnownSorts
     /\ \E i \in DOMAIN links : urlFilePath(links[i]).t # "path")
        => /\ error # "TypeError"
           /\ \A i \in DOMAIN probe :
                 urlFilePath(links[i]).t # "path" => probe[i] = "noPath"

\* C5: with shuffle, when the probe of every filtered link says 'exists', the
\* selection yields defaultLink, whatever the sort mode.
C5_AllExistYieldsDefault ==
    (/\ options.shuffle
     /\ Selected
     /\ \A i \in DOMAIN probe : probe[i] = "isFile")
        => winner = defaultLink

C5_Witness ==
    /\ options.shuffle
    /\ Selected
    /\ Len(links) > 0
    /\ \A i \in DOMAIN probe : probe[i] = "isFile"
    /\ winner = defaultLink

\* the links that are not excluded by a probe that found a regular file
C6_Eligible ==
    LET idx == SelectSeq([i \in DOMAIN links |-> i],
                         LAMBDA i : probe[i] \in {"statError", "notFile",
                                                  "noPath"})
    IN  [k \in DOMAIN idx |-> links[idx[k]]]

\* C6: a probe whose fs.stat fails counts as 'does not exist': its link stays
\* eligible for the fold, and the failing probe changes neither the other
\* probes nor the state of the run (it never makes the run fail).
C6_ProbeFailureAbsorbed ==
    /\ []((options.shuffle /\ Selected)
            => winner = Reduce(C6_Eligible, options.sort, defaultLink))
    /\ [][\A i \in DOMAIN probe :
            (probe[i] = "pending" /\ probe'[i] = "statError")
                => /\ pc' = pc
                   /\ error' = error
                   /\ links' = links
                   /\ \A j \in DOMAIN probe \ {i} : probe'[j] = probe[j]]_vars

C6_Witness ==
    /\ options.shuffle
    /\ Selected
    /\ \E i \in DOMAIN probe : probe[i] = "statError" /\ winner = links[i]
    /\ \E j \in DOMAIN probe : probe[j] = "isFile"

\* C7: every fetch is started together; selection starts only when every
\* fetch has returned; once one fetch has failed the run has failed and no
\* selection, probe, download, wallpaper set or notification happens.
C7_AllFetchesOrNothing ==
    /\ (\E i \in Feeds : fetch[i] # "idle")
          => \A i \in Feeds : fetch[i] # "idle"
    /\ (\/ pc \notin {"ensureDirectoryExists", "loadSubreddits", "fetching",
                      "failed"}
        \/ (pc = "failed" /\ error \notin {"MkdirError", "FetchError"})
        \/ links # <<>> \/ probe # <<>> \/ Selected \/ ~NoDownloadEffects)
          => AllFetched
    /\ (\E i \in Feeds : fetch[i] = "failed")
          => /\ pc = "failed" /\ error = "FetchError"
             /\ links = <<>> /\ probe = <<>> /\ ~Selected
             /\ NoDownloadEffects

C7_Witness ==
    /\ pc = "failed"
    /\ fetch = << "ok", "failed" >>
    /\ subreddits[1] \in { Listing(<< c >>) : c \in {ChildA, ChildB} }

\* C8: wallpaper.set is called only after the file has been written, notify
\* only after the wallpaper has been set; when the request, the write, the
\* set or the notification fails, no later step is started and the run has
\* failed with that failure for good.
C8_StrictlySequential ==
    /\ []("writeFile" \in calls => "request" \in calls)
    /\ []("wallpaper.set" \in calls
            => Len(written) = 1 /\ written[1] = urlFilePath(winner).path)
    /\ []("notify" \in calls => wallpaper = written /\ Len(wallpaper) = 1)
    /\ [](notified # 0 => "notify" \in calls /\ notified = 1)
    /\ [](error = "DownloadError"
            => pc = "failed" /\ calls = {"request"} /\ written = <<>>)
    /\ [](error = "WriteError"
            => pc = "failed" /\ calls = {"request", "writeFile"}
               /\ written = <<>> /\ wallpaper = <<>>)
    /\ [](error = "ApplyError"
            => pc = "failed" /\ "notify" \notin calls /\ wallpaper = <<>>)
    /\ [](error = "NotifyError" => pc = "failed" /\ notified = 0)
    /\ [][pc = "failed"
            => /\ pc' = "failed" /\ error' = error /\ calls' = calls
               /\ written' = written /\ wallpaper' = wallpaper
               /\ notified' = notified]_vars

C8_Witness ==
    /\ pc = "done"
    /\ calls = {"request", "writeFile", "wallpaper.set", "notify"}
    /\ Len(written) = 1
    /\ wallpaper = written
    /\ notified = 1

\* C9: with a sort mode that is not top, hot, controversial or new the run
\* fails before a feed request is sent and before a probe is started.
C9_UnknownSortFailsFirst ==
    options.sort \notin KnownSorts
        => /\ \A i \in Feeds : fetch[i] = "idle"
           /\ \A i \in DOMAIN probe : probe[i] \in {"notStarted", "threw"}

\* the four clauses of the filter, on a candidate c
C10_Keeps(c) ==
    /\ ("score" \notin DOMAIN c \/ c.score = 0 \/ c.score >= options.score)
    /\ \/ "domains" \notin DOMAIN options
       \/ options.domains = <<>>
       \/ \E i \in DOMAIN options.domains : options.domains[i] = c.domain
    /\ \/ "types" \notin DOMAIN options
       \/ options.types = <<>>
       \/ \E i \in DOMAIN options.types : options.types[i] = c.type
    /\ \/ "resolution" \notin DOMAIN options
       \/ /\ "resolution" \in DOMAIN c
          /\ c.resolution.width >= options.resolution.width
          /\ c.resolution.height >= options.resolution.height

\* C10: the filter keeps a candidate if and only if the score, domain, type
\* and resolution clauses all hold (a candidate with score 0 or without a
\* score passes the score clause, one with a non-zero score below the
\* threshold does not), and it keeps the candidates in their order.
C10_FilterIffAllClauses ==
    pc # "selectWallpaperLink"
        => links = SelectSeq(Normalize(subreddits), C10_Keeps)

C10_Witness ==
    /\ pc = "downloadFile"
    /\ options.score = 100
    /\ "domains" \in DOMAIN options /\ options.domains # <<>>
    /\ "types" \in DOMAIN options /\ options.types # <<>>
    /\ "resolution" \in DOMAIN options
    /\ Len(links) = 1
    /\ HasScore(links[1]) /\ links[1].score = 0
    /\ \E c \in Range(Normalize(subreddits)) : HasScore(c) /\ c.score = 50

(***************************************************************************)
(* C11: a run writes at most one file, the winner's, and that write        *)
(* overlaps neither another write nor an existence probe of the run that   *)
(* is still outstanding                                                    *)
(***************************************************************************)
C11_Writing == pc = "writeFile"

\* C11: at most one file is written per run, it is the winner's file, it is
\* written by the one write in progress, and no probe is outstanding from
\* the moment the write is started
C11_SingleWrite ==
    /\ [](/\ Len(written) <= 1
          /\ written # <<>> =>
                /\ Selected
                /\ urlFilePath(winner).t = "path"
                /\ written = << urlFilePath(winner).path >>
          /\ "writeFile" \in calls =>
                \A i \in DOMAIN probe : probe[i] # "pending")
    /\ [][written' # written =>
            C11_Writing /\ ~C11_Writing' /\ written = <<>>]_vars

\* the file of the winner has been written in a run with shuffle that probed
\* two links
C11_Witness ==
    /\ options.shuffle
    /\ Len(probe) >= 2
    /\ Selected
    /\ urlFilePath(winner).t = "path"
    /\ written = << urlFilePath(winner).path >>

(***************************************************************************)
(* C12: the candidates are the link entries of the feeds in the order the  *)
(* feeds were requested, whatever the order the responses arrived in       *)
(***************************************************************************)
\* the candidates of feed i that pass the filter, in the order of its
\* children
C12_FeedLinks(i) ==
    LET Keep(link) == KeepLink(options, link)
    IN  IF IsListing(subreddits[i])
        THEN SelectSeq(ListingLinks(subreddits[i]), Keep)
        ELSE <<>>

RECURSIVE C12_Offset(_)
\* how many links the feeds before feed i contribute
C12_Offset(i) ==
    IF i = 1 THEN 0 ELSE C12_Offset(i - 1) + Len(C12_FeedLinks(i - 1))

C12_Selecting == pc = "selectWallpaperLink"

\* C12: the response of request i is stored at position i whichever request
\* completes first; the links selectWallpaperLink builds are those of feed
\* 1 in the order of its children, then those of feed 2, and so on; and no
\* later step reorders them
C12_RequestOrder ==
    [][/\ \A i \in Feeds :
            fetch[i] = "pending" /\ fetch'[i] = "ok" =>
                /\ subreddits'[i] # NoResponse
                /\ \A j \in Feeds \ {i} : subreddits'[j] = subreddits[j]
       /\ C12_Selecting /\ ~C12_Selecting' =>
            /\ Len(links') = C12_Offset(Len(options.subreddits) + 1)
            /\ \A i \in Feeds : \A k \in DOMAIN C12_FeedLinks(i) :
                    links'[C12_Offset(i) + k] = C12_FeedLinks(i)[k]
       /\ ~C12_Selecting => links' = links]_vars

\* two feeds have been fetched and normalised: two links of the first one,
\* then a third link, of the second one
C12_Witness ==
    /\ AllFetched
    /\ ~C12_Selecting
    /\ Len(options.subreddits) = 2
    /\ Len(C12_FeedLinks(1)) = 2
    /\ Len(C12_FeedLinks(2)) = 1
    /\ C12_FeedLinks(1)[1] # C12_FeedLinks(1)[2]
    /\ C12_FeedLinks(2)[1] \notin Range(C12_FeedLinks(1))
    /\ links = C12_FeedLinks(1) \o C12_FeedLinks(2)

(***************************************************************************)
(* C13: building the effective configuration changes neither the defaults  *)
(* nor the object of the caller                                            *)
(***************************************************************************)
\* the configuration of a run that depends only on the pristine defaults
\* and on the object c of its caller
C13_Effective(c) == assignConfig(DefaultsInitial, c)

RECURSIVE C14_NotExisting(_)
\* the links from position i on whose own probe did not find a regular
\* file, in the order of links
C14_NotExisting(i) ==
    IF i > Len(links) THEN <<>>
    ELSE (IF probe[i] = "isFile" THEN <<>> ELSE << links[i] >>)
            \o C14_NotExisting(i + 1)

C14_Folding == pc = "probing" /\ pc' = "downloadFile"

\* C14: whichever probe settles first, its outcome is recorded for its own
\* link (a hit is a regular file at the path of that link) and leaves the
\* other outcomes, the links and the winner alone; the fold then runs over
\* the links without a hit in the order of links
C14_ProbeOrderIrrelevant ==
    [][/\ \A i \in DOMAIN probe :
            probe[i] = "pending" /\ probe'[i] # "pending" =>
                /\ probe'[i] = "isFile" => fs[ProbePath(i)] = "file"
                /\ \A j \in DOMAIN probe \ {i} : probe'[j] = probe[j]
                /\ links' = links
                /\ winner' = winner
       /\ C14_Folding =>
            /\ probe' = probe
            /\ winner' = Reduce(C14_NotExisting(1), options.sort, defaultLink)
       /\ Selected => winner' = winner]_vars

\* three links were probed, the first one exists, and the fold picked one of
\* the two others
C14_Witness ==
    /\ options.shuffle
    /\ Len(links) = 3
    /\ probe = << "isFile", "statError", "statError" >>
    /\ winner \in {links[2], links[3]}
    /\ links[2] # links[3]

(***************************************************************************)
(* C15: with shuffle the fold waits for every probe                        *)
(***************************************************************************)
C15_Outstanding == \E i \in DOMAIN probe : probe[i] = "pending"

\* C15: while a probe is outstanding the run is waiting for the probes or
\* has failed: there is no winner and no step after the selection has
\* started
C15_FoldAfterProbes ==
    C15_Outstanding =>
        /\ options.shuffle
        /\ pc \in {"probing", "failed"}
        /\ ~Selected
        /\ NoDownloadEffects

\* one probe has settled with 'does not exist', another one is outstanding,
\* and the fold has not started
C15_Witness ==
    /\ C15_Outstanding
    /\ pc = "probing"
    /\ \E i \in DOMAIN probe : probe[i] = "statError"
    /\ ~Selected

(***************************************************************************)
(* C16: under 'controversial' the winner has the greatest controversy      *)
(***************************************************************************)
\* the controversy the fold is said to compare: that of the code, with 0
\* for a link without any vote
C16_Controversy(link) ==
    IF link.ups = 0 /\ link.downs = 0 THEN Power(0, 1, 1)
    ELSE controversy(link)

\* C16: under sort 'controversial' the winner over a non-empty sequence of
\* links is one of them and no link has a greater controversy, a link with
\* ups = 0 and downs = 0 counting as controversy 0
C16_MostControversial ==
    (options.sort = "controversial" /\ Selected /\ links # <<>>)
        => /\ \E i \in DOMAIN links : winner = links[i]
           /\ \A i \in DOMAIN links :
                ~ControversyGt(C16_Controversy(links[i]),
                               C16_Controversy(winner))

(***************************************************************************)
(* C17: the values of controversy                                          *)
(***************************************************************************)
\* the value the claim gives controversy
C17_Claimed(link) ==
    IF link.ups = 0 /\ link.downs = 0 THEN Power(0, 1, 1)
    ELSE IF link.ups < 0 \/ link.downs < 0 THEN Power(0, 1, 1)
    ELSE IF link.ups > link.downs
         THEN Power(link.ups + link.downs, link.downs, link.ups)
         ELSE Power(link.ups + link.downs, link.ups, link.downs)

\* C17: controversy(link) is 0 when ups and downs are both 0, 0 when one of
\* them is negative, otherwise ups + downs to the power min/max (20 for
\* ups = downs = 10); it is never NaN
C17_ControversyValues ==
    (pc = "returned" /\ result.t = "controversy")
        => \A i \in DOMAIN result.values :
            /\ result.values[i] # NaN
            /\ result.values[i] = C17_Claimed(arg.inputs[i])
            /\ (arg.inputs[i].ups = 10 /\ arg.inputs[i].downs = 10)
                  => result.values[i] = Power(20, 1, 1)

(***************************************************************************)
(* C18: heat grows with the creation time                                  *)
(***************************************************************************)
\* C18: of two links with the same score the one created later has the
\* strictly greater heat
C18_HeatStrictlyMonotonic ==
    (pc = "returned" /\ result.t = "heat")
        => \A i, j \in DOMAIN result.values :
            (/\ arg.inputs[i].score = arg.inputs[j].score
             /\ arg.inputs[i].createdUtc < arg.inputs[j].createdUtc)
                => Gt(result.values[j], result.values[i])

(***************************************************************************)
(* C19: a resolution has positive sides                                    *)
(***************************************************************************)
\* C19: a candidate the normaliser builds has no resolution, or one whose
\* width and height are strictly positive, whatever the title
C19_ResolutionPositive ==
    (pc = "returned" /\ result.t = "Candidate")
        => \A i \in DOMAIN result.values :
            "resolution" \in DOMAIN result.values[i]
                => /\ result.values[i].resolution.width > 0
                   /\ result.values[i].resolution.height > 0

(***************************************************************************)
(* C20: with shuffle the run does not write over a file a probe found      *)
(***************************************************************************)
\* the file written is that of link i, which passed the filter and whose
\* own probe did not report a regular file
C20_WrittenFor(i) ==
    /\ links[i] = winner
    /\ KeepLink(options, links[i])
    /\ probe[i] # "isFile"
    /\ urlFilePath(links[i]).t = "path"
    /\ written = << ProbePath(i) >>

C20_Wrote == options.shuffle /\ written # <<>>

\* C20 as claimed: with shuffle, no probe of the run reported a regular file
\* at a path the run writes to, and the file written is that of a filtered
\* link whose probe said 'does not exist' or failed
C20_NeverWritesProbedPath ==
    C20_Wrote =>
        /\ \A i \in DOMAIN probe :
              probe[i] = "isFile" => ProbePath(i) \notin Range(written)
        /\ \E i \in DOMAIN links : C20_WrittenFor(i)

\* C20 as it holds: with shuffle, the file written is that of a filtered
\* link whose own probe said 'does not exist' or failed (the probe of
\* another link with the same file name may have reported a regular file)
C20_WritesUnprobedLink ==
    C20_Wrote => \E i \in DOMAIN links : C20_WrittenFor(i)

\* a file has been written for a link whose probe failed while the probe
\* of another link found its file
C20_Witness ==
    /\ C20_Wrote
    /\ \E i, j \in DOMAIN links :
          /\ probe[i] = "isFile"
          /\ probe[j] = "statError"
          /\ ProbePath(i) # ProbePath(j)
          /\ C20_WrittenFor(j)

====
